---- MODULE Spec2Model ----
(***************************************************************************)
(* State-machine model of the Kaya ingest loop (kaya_ingest_loop.py), of   *)
(* the upsert sink KayaProject.upsert_from_payload (KayaProjects/models.py)*)
(* and of the singleton settings record KayaSetting (KayaSettings/models). *)
(*                                                                         *)
(* Python values are represented as follows.                               *)
(*   dict            a record; a missing key is a missing field            *)
(*   list            a sequence                                            *)
(*   None (integer)  the integer None                                      *)
(*   big integers    little-endian sequences of base-1000 limbs without    *)
(*                   leading zero limbs (epoch values exceed 32 bits)      *)
(*   exceptions      the name of the exception class                       *)
(***************************************************************************)
EXTENDS Integers, Sequences, FiniteSets, TLC

(***************************************************************************)
(* Bounds of the model.                                                    *)
(***************************************************************************)
MaxCycles == 2      \* iterations of the while-loop of main() explored
MaxEvents == 2      \* events of the environment over a run: listings the upstream
                    \* delivers, page requests that fail or are retried,
                    \* load_settings() calls that fail, external edits of the
                    \* settings record and of the Job table

(***************************************************************************)
(* Python helpers.                                                         *)
(***************************************************************************)
None == -1

Max(a, b) == IF a >= b THEN a ELSE b

\* x or d, for integers (None and 0 are falsy)
OrInt(x, d) == IF x = None \/ x = 0 THEN d ELSE x

\* payload.get(key) for the keys the code reads
GetProjectId(payload) ==
    IF "project_id" \in DOMAIN payload THEN payload.project_id ELSE None

NoneTs == <<-1>>

GetSubmitDate(payload) ==
    IF "submit_date" \in DOMAIN payload THEN payload.submit_date ELSE NoneTs

\* payload.get("title") or ""
GetTitle(payload) ==
    IF "title" \in DOMAIN payload THEN payload.title ELSE ""

\* payload.get("jobs", []) or []
GetJobs(payload) ==
    IF "jobs" \in DOMAIN payload THEN payload.jobs ELSE << >>

\* j.get("id"), j.get("name") or ""
GetJobId(j) == IF "id" \in DOMAIN j THEN j.id ELSE None
GetJobName(j) == IF "name" \in DOMAIN j THEN j.name ELSE ""

RECURSIVE SetToSeqs(_)
\* all orderings of a finite set: the row order of a query without ORDER BY
SetToSeqs(S) ==
    IF S = {} THEN { << >> }
    ELSE UNION { { <<x>> \o t : t \in SetToSeqs(S \ {x}) } : x \in S }

(***************************************************************************)
(* Big naturals as limb sequences: value = SUM limbs[i] * 1000^(i-1).      *)
(***************************************************************************)
\* BelowTenBillion with the threshold 10_000_000_000_000
BelowTenTrillion(n) ==
    \/ Len(n) <= 4
    \/ Len(n) = 5 /\ n[5] < 10
\* n < 10_000_000_000, i.e. n < 10 * 1000^3
BelowTenBillion(n) ==
    \/ Len(n) <= 3
    \/ Len(n) = 4 /\ n[4] < 10

IsZero(n) == n = << >>

\* n * 1000
TimesThousand(n) == IF IsZero(n) THEN n ELSE <<0>> \o n

\* KayaProject._ms_to_dt: the instant, in epoch milliseconds
MsToDt(ms) ==
    IF ~IsZero(ms) /\ BelowTenBillion(ms) THEN TimesThousand(ms) ELSE ms

(***************************************************************************)
(* The two tables of KayaProjects/models.py.  A Job row is                 *)
(* [external_id, name]; a KayaProject row is [project_id, submit_date,     *)
(* title, jobs], jobs being the set of external ids the row is associated  *)
(* with through the many-to-many table.  title stands for every plain      *)
(* column that is copied from the payload.                                 *)
(***************************************************************************)
\* Job.objects.update_or_create(external_id=id, defaults={"name": name})
JobUpdateOrCreate(J, id, name) ==
    IF \E r \in J : r.external_id = id
    THEN { IF r.external_id = id THEN [r EXCEPT !.name = name] ELSE r : r \in J }
    ELSE J \cup { [external_id |-> id, name |-> name] }

\* cls.objects.update_or_create(project_id=pid, defaults={...})
ProjectUpdateOrCreate(P, pid, submit_dt, title) ==
    IF \E r \in P : r.project_id = pid
    THEN { IF r.project_id = pid
           THEN [r EXCEPT !.submit_date = submit_dt, !.title = title]
           ELSE r : r \in P }
    ELSE P \cup { [project_id |-> pid, submit_date |-> submit_dt,
                   title |-> title, jobs |-> {}] }

\* obj.jobs.set(job_objs) and obj.jobs.clear() on the row of pid
JobsSet(P, pid, ids) ==
    { IF r.project_id = pid THEN [r EXCEPT !.jobs = ids] ELSE r : r \in P }
\* JobsClear without the else-branch of "if job_objs"
JobsClearSkipped(P, pid) == P
JobsClear(P, pid) ==
    { IF r.project_id = pid THEN [r EXCEPT !.jobs = {}] ELSE r : r \in P }

RECURSIVE JobLoop(_, _, _)
\* the for-loop over payload["jobs"]: the Job table and the ids collected so
\* far, and the exception that ended the loop, if any
JobLoop(js, J, objs) ==
    IF js = << >> THEN [exc |-> "none", jobs |-> J, objs |-> objs]
    ELSE LET j == Head(js) IN
         IF DOMAIN j = {} THEN JobLoop(Tail(js), J, objs)
         ELSE IF GetJobId(j) = None
              THEN [exc |-> "IntegrityError", jobs |-> J, objs |-> objs]
              ELSE JobLoop(Tail(js),
                           JobUpdateOrCreate(J, GetJobId(j), GetJobName(j)),
                           objs \cup { GetJobId(j) })

\* KayaProject.upsert_from_payload(payload) on tables P (projects) and J (jobs):
\* the exception it ends with, if any, and the tables it leaves
UpsertFromPayload(payload, P, J) ==
    IF GetSubmitDate(payload) = NoneTs
    THEN [exc |-> "TypeError", projects |-> P, jobs |-> J]
    ELSE IF GetProjectId(payload) = None
    THEN [exc |-> "KeyError", projects |-> P, jobs |-> J]
    ELSE LET pid == GetProjectId(payload)
             P1 == ProjectUpdateOrCreate(P, pid, MsToDt(GetSubmitDate(payload)),
                                         GetTitle(payload))
             jl == JobLoop(GetJobs(payload), J, {})
         IN  IF jl.exc # "none"
             THEN [exc |-> jl.exc, projects |-> P1, jobs |-> jl.jobs]
             ELSE [exc |-> "none",
                   projects |-> IF jl.objs # {} THEN JobsSet(P1, pid, jl.objs)
                                ELSE JobsClear(P1, pid),
                   jobs |-> jl.jobs]

(***************************************************************************)
(* Exceptions and the try/except blocks of kaya_ingest_loop.py.            *)
(***************************************************************************)
\* the positions of main() inside load_settings(), one per database call:
\* line 64, line 68, line 69 and line 72
LoadPositions == {"load", "load_exists", "load_selected", "load_all"}

\* the positions inside the loop body of lines 138-146, the sink having one per
\* database call: models.py lines 51-52, line 74 and lines 79-82
SinkPositions == {"item", "item_jobs", "item_set"}

\* Catches with a bare "except:" in place of "except Exception"
CatchesAll(cls, exc) == TRUE
\* isinstance(exc, cls) for the classes named in the except clauses
Catches(cls, exc) ==
    IF cls = "HTTPError" THEN exc = "HTTPError"
    ELSE exc # "SystemExit"      \* except Exception: SystemExit is a BaseException

\* HandlerStack with the per-skill try around the whole for-loop over skills
HandlerStackNoSkillTry(at) ==
    CASE at \in LoadPositions ->
           << [cls |-> "Exception", resume |-> "fallback"] >>
      [] at = "ingest" ->
           << [cls |-> "Exception", resume |-> "after_ingest"] >>
      [] at = "fetch" ->
           << [cls |-> "HTTPError", resume |-> "after_ingest"],
              [cls |-> "Exception", resume |-> "after_ingest"],
              [cls |-> "Exception", resume |-> "after_ingest"] >>
      [] at \in SinkPositions ->
           << [cls |-> "Exception", resume |-> "next_item"],
              [cls |-> "HTTPError", resume |-> "after_ingest"],
              [cls |-> "Exception", resume |-> "after_ingest"],
              [cls |-> "Exception", resume |-> "after_ingest"] >>
      [] OTHER -> << >>

\* HandlerStack without the try around upsert_from_payload
HandlerStackNoItemTry(at) ==
    CASE at \in LoadPositions ->
           << [cls |-> "Exception", resume |-> "fallback"] >>
      [] at = "ingest" ->
           << [cls |-> "Exception", resume |-> "after_ingest"] >>
      [] at \in {"fetch"} \cup SinkPositions ->
           << [cls |-> "HTTPError", resume |-> "after_skill"],
              [cls |-> "Exception", resume |-> "after_skill"],
              [cls |-> "Exception", resume |-> "after_ingest"] >>
      [] OTHER -> << >>

\* the except clauses that enclose each position of main(), innermost first
HandlerStack(at) ==
    CASE at \in LoadPositions ->
           << [cls |-> "Exception", resume |-> "fallback"] >>
      [] at = "ingest" ->
           << [cls |-> "Exception", resume |-> "after_ingest"] >>
      [] at = "fetch" ->
           << [cls |-> "HTTPError", resume |-> "after_skill"],
              [cls |-> "Exception", resume |-> "after_skill"],
              [cls |-> "Exception", resume |-> "after_ingest"] >>
      [] at \in SinkPositions ->
           << [cls |-> "Exception", resume |-> "next_item"],
              [cls |-> "HTTPError", resume |-> "after_skill"],
              [cls |-> "Exception", resume |-> "after_skill"],
              [cls |-> "Exception", resume |-> "after_ingest"] >>
      [] OTHER -> << >>

RECURSIVE Propagate(_, _)
\* where control resumes when exc is raised under the handlers of stack; an
\* unhandled SystemExit ends the process normally, anything else crashes it
Propagate(exc, stack) ==
    IF stack = << >>
    THEN IF exc = "SystemExit" THEN "exited" ELSE "crashed"
    ELSE IF Catches(Head(stack).cls, exc) THEN Head(stack).resume
         ELSE Propagate(exc, Tail(stack))

(***************************************************************************)
(* load_settings, fetch_page and the sleep computation.                    *)
(***************************************************************************)
\* interval_minutes = max(10, int(settings.interval_minutes or 10))
\* IntervalMinutes without the max(10, ...)
IntervalUnclamped(stored) == OrInt(stored, 10)
IntervalMinutes(stored) == Max(10, OrInt(stored, 10))

\* sleep_secs = max(600, interval_minutes * 60)
SleepSecs(interval) == Max(600, interval * 60)

\* r.raise_for_status(): 4xx and 5xx raise HTTPError
RaisesForStatus(status) == status >= 400 /\ status < 600

\* make_session: Retry(total=4, status_forcelist=(429, 500, 502, 503, 504))
RetryTotal == 4
StatusForcelist == {429, 500, 502, 503, 504}

\* an HTTP attempt ends with the status of the response, or with NoResponse
\* when the connection failed or timed out
NoResponse == 0

\* urllib3: Retry.RETRY_AFTER_STATUS_CODES, which respect_retry_after_header
\* (left at its default, True) makes retried when Retry-After is sent
RetryAfterStatusCodes == {413, 429, 503}

\* the outcome of an attempt: the status and whether the response carries a
\* Retry-After header
Outcome(status, retry_after) == [status |-> status, retry_after |-> retry_after]

\* Retry.increment / is_retry: a connection-level failure of a GET, a status
\* of the forcelist, and a status of RETRY_AFTER_STATUS_CODES that comes
\* with a Retry-After header are retried
IsRetried(o) ==
    \/ o.status = NoResponse
    \/ o.status \in StatusForcelist
    \/ o.retry_after /\ o.status \in RetryAfterStatusCodes

RECURSIVE SessionGet(_, _, _)
\* session.get through the mounted HTTPAdapter: script gives what each
\* successive attempt would end with, left the retries left, tried the
\* outcomes of the attempts made so far; the result is the outcomes of all the
\* attempts made (raise_on_status=False: the last response is returned)
SessionGet(script, left, tried) ==
    IF IsRetried(Head(script)) /\ left > 0
    THEN SessionGet(Tail(script), left - 1, Append(tried, Head(script)))
    ELSE Append(tried, Head(script))

\* fetch_page, lines 89-90: the exception a page request ends with, if any
FetchRaises(tried) ==
    IF tried[Len(tried)].status = NoResponse THEN "ConnectionError"
    ELSE IF RaisesForStatus(tried[Len(tried)].status) THEN "HTTPError"
    ELSE "none"

\* the tail of fetch_page: a bare list, or data.get("projects") or
\* data.get("results") or []
Normalize(data) ==
    IF data.kind = "list" THEN data.items
    ELSE IF "projects" \in DOMAIN data /\ data.projects # << >> THEN data.projects
    ELSE IF "results" \in DOMAIN data /\ data.results # << >> THEN data.results
    ELSE << >>

\* FirstPosition without the early return and with a loop that runs once anyway
FirstPositionAlwaysFetch(sk) == "fetch"
\* ingest_once, lines 122-124 and 136: with no skill it returns 0 at once, else
\* it enters the for-loop over skills
FirstPosition(sk) == IF sk = << >> THEN "after_ingest" ELSE "fetch"

\* FreshSeen keeping the set of the previous call
StaleSeen(old) == old
\* ingest_once, line 128: seen = set(), whatever an earlier call collected
FreshSeen(old) == {}

\* SeenAdd forgetting the id
SeenAddDropped(s, pid) == s
\* ingest_once, line 144: seen.add(pid)
SeenAdd(s, pid) == s \cup {pid}

\* NextOffset counting pages instead of listings
NextOffsetByPage(off, batch_count) == off + 1
\* fetch_all_for_skill, line 113: offset += batch_count
NextOffset(off, batch_count) == off + batch_count

\* EndOfPages taking a page of fewer than two listings for the last one
StopOnShortPage(batch) == Len(batch) < 2
\* fetch_all_for_skill: "if not batch: break"
EndOfPages(batch) == batch = << >>

(***************************************************************************)
(* Inputs: the listings the upstream API may return, the page envelopes    *)
(* it may wrap them in, and the values an external writer may store.       *)
(***************************************************************************)
Secs == <<0, 0, 700, 1>>         \* 1_700_000_000
Millis == <<0, 0, 0, 700, 1>>    \* 1_700_000_000_000

Payloads ==
    { [project_id |-> 100, submit_date |-> Secs, title |-> "a",
       jobs |-> << [id |-> 17, name |-> "dev"] >>],
      \* a later version of 100, with another category (and a falsy entry)
      [project_id |-> 100, submit_date |-> Millis, title |-> "a2",
       jobs |-> << << >>, [id |-> 99, name |-> "new"] >>],
      \* a later version of 100, with no category
      [project_id |-> 100, submit_date |-> Secs, title |-> "a3"],
      [project_id |-> 101, submit_date |-> Millis, title |-> "b",
       jobs |-> << [id |-> 42, name |-> "ops"] >>],
      \* no submit_date: _ms_to_dt raises before anything is written
      [project_id |-> 100, title |-> "nodate"],
      \* a category without id: raises after the record and category 99 are written
      [project_id |-> 101, submit_date |-> Secs, title |-> "p",
       jobs |-> << [id |-> 99, name |-> "new"], [name |-> "noid"] >>] }

\* the pages of at most n listings
PagesUpTo(n) ==
    UNION { [1..m -> Payloads] : m \in 0..n }

\* the JSON bodies that carry page b
Envelopes(b) ==
    { [kind |-> "list", items |-> b],
      [kind |-> "dict", projects |-> b],
      [kind |-> "dict", results |-> b],
      [kind |-> "dict", projects |-> << >>, results |-> b] }

\* what session.get ends with when the page is not delivered: a status that
\* is not retried, a retried status after the last retry, or no response at all
FinalStatuses == {404, 503, NoResponse}

\* what the successive attempts of one page request meet: k attempts ending
\* with f, every later one with g (413 being sent with a Retry-After header)
AttemptScripts ==
    { [ i \in 1..(RetryTotal + 2) |-> IF i <= k THEN f ELSE g ] :
        k \in {0, 1, RetryTotal, RetryTotal + 1},
        f \in { Outcome(st, FALSE) : st \in FinalStatuses \ {404} },
        g \in { Outcome(st, FALSE) : st \in FinalStatuses \cup {200} }
                 \cup { Outcome(413, TRUE) } }

\* the attempt sequences session.get can go through
Sends == { SessionGet(script, RetryTotal, << >>) : script \in AttemptScripts }
StoredIntervals == {3, 15}

\* the entries of a jobs.json: a category the table lacks, and another name
\* for one it has
ImportEntries == { [id |-> 7, name |-> "new category"],
                   [id |-> 17, name |-> "renamed"] }

(***************************************************************************)
(* State.                                                                  *)
(***************************************************************************)
VARIABLES
    pc,                     \* position of main(): loop_top, load, load_exists,
                            \* load_selected, load_all, fallback, ingest, fetch,
                            \* item, item_jobs, item_set, bk_load, bk_save, sleep,
                            \* exited, crashed
    cycle, interval_minutes, skills, sleep_secs,           \* locals of main()
    processed, seen, per_skill_counts,                     \* locals of ingest_once()
    skill_idx, skill_processed_before,
    offset, page, batch, item_idx,                         \* fetch_all_for_skill()
    setting,                                               \* main(): setting
    stored_interval,        \* KayaSetting row pk=1: interval_minutes (None: no row)
    settings_jobs,          \* KayaSetting.jobs
    job_rows, project_rows, \* tables Job and KayaProject
    budget,                 \* events the environment may still cause
    requests,               \* the page requests of this cycle's fetch phase and
                            \* what they returned
    outcomes,               \* the payloads it yielded and what became of them
    loadFailed,             \* load_settings raised in this cycle
    storedAtLoad,           \* the stored interval load_settings read in this cycle
    sigAt,                  \* position at which a termination signal arrived
    okCount,                \* successful upserts of the run
    lastOk,                 \* per project_id, the payload of its last successful upsert
    dirty,                  \* project_ids written since then by an upsert that
                            \* failed or is running, or by a deletion of a Job row
    skills_override,        \* the category list given at process start-up (<<>>: none)
    attempts,               \* outcomes of the HTTP attempts of the latest page request
    lastExtInterval,        \* the interval an external writer stored last (None: none)
    extChanged,             \* the settings or the Job table were edited externally
                            \* since the current cycle started
    prevChanged,            \* the same for the previous cycle, as it ended
    job_idx, job_objs,      \* upsert_from_payload: position in jobs, job_objs (the
                            \* external ids of the instances, Dangling when the
                            \* row of an instance is gone)
    atCall                  \* the two tables as the sink call in progress found them

mainVars == <<cycle, interval_minutes, skills>>
loopVars == <<skill_idx, skill_processed_before, offset, page, batch, item_idx,
              per_skill_counts>>
dbVars == <<stored_interval, settings_jobs, job_rows, project_rows>>
histVars == <<requests, outcomes, loadFailed, storedAtLoad, okCount, lastOk,
              dirty>>
envVars == <<skills_override, attempts, lastExtInterval, extChanged, prevChanged>>
sinkVars == <<job_idx, job_objs, atCall>>
vars == <<pc, mainVars, sleep_secs, processed, seen, loopVars, setting, dbVars,
          budget, histVars, sigAt, envVars, sinkVars>>

JobIds == { r.external_id : r \in job_rows }

\* a Job instance held in job_objs whose row was deleted: its primary key is
\* in no row any more, whatever is stored under its external_id afterwards
Dangling(id) == 0 - id

\* no sink call is in progress
NoCall == [projects |-> {}, jobs |-> {}]

Init ==
    /\ pc = "loop_top"
    /\ cycle = 0
    /\ interval_minutes = None
    /\ skills = << >>
    /\ sleep_secs = None
    /\ processed = 0
    /\ seen = {}
    /\ per_skill_counts = << >>
    /\ skill_idx = 0
    /\ skill_processed_before = 0
    /\ offset = 0
    /\ page = 0
    /\ batch = << >>
    /\ item_idx = 0
    /\ setting = None
    /\ stored_interval = None
    /\ settings_jobs = {}
    \* the Job table before and after import_jobs.py has run
    /\ job_rows \in { {},
                      { [external_id |-> 17, name |-> "dev"],
                        [external_id |-> 42, name |-> "ops"] } }
    /\ project_rows = {}
    /\ budget = MaxEvents
    /\ requests = << >>
    /\ outcomes = << >>
    /\ loadFailed = FALSE
    /\ storedAtLoad = None
    /\ sigAt = "none"
    /\ okCount = 0
    /\ lastOk = {}
    /\ dirty = {}
    \* the process is started without a list of categories to poll or, on the
    \* database that holds no category yet, with the list 42
    /\ skills_override \in IF job_rows = {} THEN { << >>, <<42>> } ELSE { << >> }
    /\ attempts = << >>
    /\ lastExtInterval = None
    /\ extChanged = FALSE
    /\ prevChanged = FALSE
    /\ job_idx = 0
    /\ job_objs = {}
    /\ atCall = NoCall

\* KayaSetting.load(): get_or_create(pk=1) creates the row with the default 10
LoadedInterval == IF stored_interval = None THEN 10 ELSE stored_interval

\* the locals of ingest_once and of its generator, before and after a call
ResetLoop ==
    /\ skill_idx' = 0
    /\ skill_processed_before' = 0
    /\ offset' = 0
    /\ page' = 0
    /\ batch' = << >>
    /\ item_idx' = 0
    /\ per_skill_counts' = << >>

(***************************************************************************)
(* Continue(t, p): control resumes at t, processed being p.                *)
(*   next_item     the for-loop over the generator asks for the next item  *)
(*                 (lines 111-113, 137)                                    *)
(*   after_skill   line 152, then the next skill or the return             *)
(*   after_ingest  line 198, after ingest_once returned or raised          *)
(*   fallback      line 188                                                *)
(***************************************************************************)
Continue(t, p) ==
    CASE t = "next_item" ->
           /\ sleep_secs' = sleep_secs
           /\ UNCHANGED <<skill_idx, skill_processed_before, page, per_skill_counts>>
           /\ IF item_idx < Len(batch)
              THEN /\ pc' = "item"
                   /\ item_idx' = item_idx + 1
                   /\ UNCHANGED <<offset, batch>>
              ELSE /\ pc' = "fetch"
                   /\ offset' = NextOffset(offset, Len(batch))
                   /\ batch' = << >>
                   /\ item_idx' = 0
      [] t = "after_skill" ->
           IF skill_idx < Len(skills)
           THEN /\ pc' = "fetch"
                /\ per_skill_counts' =
                      Append(per_skill_counts,
                             <<skills[skill_idx], p - skill_processed_before>>)
                /\ skill_idx' = skill_idx + 1
                /\ skill_processed_before' = p
                /\ offset' = 0
                /\ page' = 0
                /\ batch' = << >>
                /\ item_idx' = 0
                /\ sleep_secs' = sleep_secs
           ELSE /\ pc' = "bk_load"
                /\ sleep_secs' = SleepSecs(interval_minutes)
                /\ ResetLoop
      [] t = "after_ingest" ->
           /\ pc' = "bk_load"
           /\ sleep_secs' = SleepSecs(interval_minutes)
           /\ ResetLoop
      [] OTHER ->        \* fallback, exited, crashed
           /\ pc' = t
           /\ sleep_secs' = sleep_secs
           /\ UNCHANGED loopVars

(***************************************************************************)
(* Actions of main().                                                      *)
(***************************************************************************)
\* lines 179-182: the top of the while-loop
CycleStart ==
    /\ pc = "loop_top"
    /\ cycle < MaxCycles
    /\ pc' = "load"
    /\ cycle' = cycle + 1
    /\ requests' = << >>
    /\ outcomes' = << >>
    /\ loadFailed' = FALSE
    /\ storedAtLoad' = None
    /\ attempts' = << >>
    /\ prevChanged' = extChanged
    /\ extChanged' = FALSE
    /\ UNCHANGED <<interval_minutes, skills, sleep_secs, processed, seen, loopVars,
                   setting, dbVars, budget, okCount, lastOk, dirty, sigAt,
                   skills_override, lastExtInterval, sinkVars>>

\* lines 64-65: settings = KayaSetting.load() creates the row pk=1 when it is
\* missing and reads interval_minutes
LoadSettings ==
    /\ pc = "load"
    /\ pc' = "load_exists"
    /\ stored_interval' = LoadedInterval
    /\ storedAtLoad' = LoadedInterval
    /\ UNCHANGED <<mainVars, sleep_secs, processed, seen, loopVars, setting,
                   settings_jobs, job_rows, project_rows, budget, requests, outcomes,
                   loadFailed, okCount, lastOk, dirty, sigAt, envVars, sinkVars>>

\* lines 67-68: selected_qs.exists()
LoadSettingsExists ==
    /\ pc = "load_exists"
    /\ pc' = IF settings_jobs # {} THEN "load_selected" ELSE "load_all"
    /\ UNCHANGED <<mainVars, sleep_secs, processed, seen, loopVars, setting, dbVars,
                   budget, histVars, sigAt, envVars, sinkVars>>

\* lines 69 and 72, 74-84, 186: the listing of the selection or of the Job
\* table, and the return to main()
LoadSettingsReturns ==
    /\ pc \in {"load_selected", "load_all"}
    /\ pc' = "ingest"
    /\ interval_minutes' = IntervalMinutes(storedAtLoad)
    /\ skills' \in SetToSeqs(IF pc = "load_selected" THEN settings_jobs ELSE JobIds)
    /\ UNCHANGED <<cycle, sleep_secs, processed, seen, loopVars, setting, dbVars,
                   budget, histVars, sigAt, envVars, sinkVars>>

\* lines 185-188: load_settings() raises, at any of its database calls
LoadSettingsFails ==
    /\ pc \in LoadPositions
    /\ budget > 0
    /\ budget' = budget - 1
    /\ loadFailed' = TRUE
    /\ Continue(Propagate("DatabaseError", HandlerStack(pc)), processed)
    /\ UNCHANGED <<mainVars, processed, seen, setting, dbVars, requests, outcomes,
                   storedAtLoad, okCount, lastOk, dirty, sigAt, envVars, sinkVars>>

\* lines 189-190: the fallback inside the except clause
Fallback ==
    /\ pc = "fallback"
    /\ \E fault \in BOOLEAN :
         IF fault
         THEN /\ Continue(Propagate("DatabaseError", HandlerStack("fallback")),
                          processed)
              /\ UNCHANGED <<interval_minutes, skills>>
         ELSE /\ pc' = "ingest"
              /\ interval_minutes' = 10
              /\ skills' \in SetToSeqs(JobIds)
              /\ UNCHANGED <<sleep_secs, loopVars>>
    /\ UNCHANGED <<cycle, processed, seen, setting, dbVars, budget, histVars, sigAt,
                   envVars, sinkVars>>

\* lines 193, 122-132: ingest_once(skills) up to its first page request
IngestStart ==
    /\ pc = "ingest"
    /\ IF FirstPosition(skills) = "after_ingest"
       THEN /\ Continue("after_ingest", 0)
            /\ UNCHANGED <<processed, seen>>
       ELSE /\ pc' = FirstPosition(skills)
            /\ processed' = 0
            /\ seen' = FreshSeen(seen)
            /\ per_skill_counts' = << >>
            /\ skill_idx' = 1
            /\ skill_processed_before' = 0
            /\ offset' = 0
            /\ page' = 0
            /\ batch' = << >>
            /\ item_idx' = 0
            /\ sleep_secs' = sleep_secs
    /\ UNCHANGED <<mainVars, setting, dbVars, budget, histVars, sigAt, envVars,
                   sinkVars>>

\* lines 104-109, 87-95: one page request of fetch_all_for_skill that returns
FetchPage ==
    /\ pc = "fetch"
    /\ \E tried \in { t \in Sends : FetchRaises(t) = "none" } :
       \E b \in PagesUpTo(budget - (IF Len(tried) > 1 THEN 1 ELSE 0)) :
       \E data \in Envelopes(b) :
         LET got == Normalize(data) IN
         /\ budget' = budget - (IF Len(tried) > 1 THEN 1 ELSE 0) - Len(got)
         /\ attempts' = tried
         /\ requests' = Append(requests,
                               [skill |-> skills[skill_idx], offset |-> offset,
                                exc |-> "none", batch |-> got])
         /\ IF EndOfPages(got)
            THEN /\ Continue("after_skill", processed)
            ELSE /\ pc' = IF got = << >> THEN "fetch" ELSE "item"
                 /\ page' = page + 1
                 /\ batch' = got
                 /\ item_idx' = IF got = << >> THEN 0 ELSE 1
                 /\ sleep_secs' = sleep_secs
                 /\ UNCHANGED <<skill_idx, skill_processed_before, offset,
                                per_skill_counts>>
    /\ UNCHANGED <<mainVars, processed, seen, setting, dbVars, outcomes, loadFailed,
                   storedAtLoad, okCount, lastOk, dirty, sigAt, skills_override,
                   lastExtInterval, extChanged, prevChanged, sinkVars>>

\* lines 89-90: session.get raises, or raise_for_status raises on the final
\* response
FetchPageFails ==
    /\ pc = "fetch"
    /\ budget > 0
    /\ budget' = budget - 1
    /\ \E tried \in { t \in Sends : FetchRaises(t) # "none" } :
         LET exc == FetchRaises(tried) IN
         /\ attempts' = tried
         /\ requests' = Append(requests,
                               [skill |-> skills[skill_idx], offset |-> offset,
                                exc |-> exc, batch |-> << >>])
         /\ Continue(Propagate(exc, HandlerStack("fetch")), processed)
    /\ UNCHANGED <<mainVars, processed, seen, setting, dbVars, outcomes, loadFailed,
                   storedAtLoad, okCount, lastOk, dirty, sigAt, skills_override,
                   lastExtInterval, extChanged, prevChanged, sinkVars>>

\* the sink call in progress ends with exception exc (lines 147-150)
SinkRaises(exc) ==
    /\ outcomes' = Append(outcomes, [skill |-> skills[skill_idx],
                                     payload |-> batch[item_idx], res |-> "raised"])
    /\ atCall' = NoCall
    /\ job_idx' = 0
    /\ job_objs' = {}
    /\ Continue(Propagate(exc, HandlerStack(pc)), processed)
    /\ UNCHANGED <<processed, seen, okCount, lastOk>>

\* lines 138-142 and models.py lines 51-69: the duplicate test for one yielded
\* payload, then upsert_from_payload up to its write of the project row
ProcessItem ==
    /\ pc = "item"
    /\ LET payload == batch[item_idx]
           pid == GetProjectId(payload)
       IN
       IF pid \in seen
       THEN /\ outcomes' = Append(outcomes, [skill |-> skills[skill_idx],
                                             payload |-> payload, res |-> "skipped"])
            /\ Continue("next_item", processed)
            /\ UNCHANGED <<processed, seen, project_rows, okCount, lastOk, dirty,
                           sinkVars>>
       ELSE IF GetSubmitDate(payload) = NoneTs
       THEN /\ SinkRaises("TypeError")
            /\ UNCHANGED <<project_rows, dirty>>
       ELSE IF pid = None
       THEN /\ SinkRaises("KeyError")
            /\ UNCHANGED <<project_rows, dirty>>
       ELSE /\ project_rows' =
                 ProjectUpdateOrCreate(project_rows, pid,
                                       MsToDt(GetSubmitDate(payload)),
                                       GetTitle(payload))
            /\ atCall' = [projects |-> project_rows, jobs |-> job_rows]
            /\ dirty' = dirty \cup {pid}
            /\ job_idx' = IF GetJobs(payload) = << >> THEN 0 ELSE 1
            /\ job_objs' = {}
            /\ pc' = IF GetJobs(payload) = << >> THEN "item_set" ELSE "item_jobs"
            /\ UNCHANGED <<sleep_secs, processed, seen, loopVars, outcomes, okCount,
                           lastOk>>
    /\ UNCHANGED <<mainVars, setting, stored_interval, settings_jobs, job_rows,
                   budget, requests, loadFailed, storedAtLoad, sigAt, envVars>>

\* models.py lines 71-78: one entry of payload["jobs"]
UpsertJobEntry ==
    /\ pc = "item_jobs"
    /\ LET js == GetJobs(batch[item_idx])
           j == js[job_idx]
           last == job_idx = Len(js)
       IN
       IF DOMAIN j # {} /\ GetJobId(j) = None
       THEN /\ SinkRaises("IntegrityError")
            /\ UNCHANGED job_rows
       ELSE /\ IF DOMAIN j = {}
               THEN UNCHANGED <<job_rows, job_objs>>
               ELSE /\ job_rows' = JobUpdateOrCreate(job_rows, GetJobId(j),
                                                     GetJobName(j))
                    /\ job_objs' = job_objs \cup { GetJobId(j) }
            /\ job_idx' = IF last THEN 0 ELSE job_idx + 1
            /\ pc' = IF last THEN "item_set" ELSE "item_jobs"
            /\ UNCHANGED <<sleep_secs, processed, seen, loopVars, outcomes, okCount,
                           lastOk, atCall>>
    /\ UNCHANGED <<mainVars, setting, stored_interval, settings_jobs, project_rows,
                   budget, requests, loadFailed, storedAtLoad, dirty, sigAt,
                   envVars>>

\* models.py lines 79-84 and lines 143-144: the associations of the project
\* row are replaced or cleared, the call returns and the payload is counted
SetProjectJobs ==
    /\ pc = "item_set"
    /\ LET payload == batch[item_idx]
           pid == GetProjectId(payload)
       IN
       IF ~(job_objs \subseteq JobIds)
       THEN \* a collected Job instance is dangling: the insert into the
            \* association table violates its foreign key and is rolled back
            /\ SinkRaises("IntegrityError")
            /\ UNCHANGED <<project_rows, dirty>>
       ELSE /\ project_rows' = IF job_objs # {}
                               THEN JobsSet(project_rows, pid, job_objs)
                               ELSE JobsClear(project_rows, pid)
            /\ processed' = processed + 1
            /\ seen' = SeenAdd(seen, pid)
            /\ okCount' = okCount + 1
            /\ lastOk' = { q \in lastOk : GetProjectId(q) # pid } \cup {payload}
            /\ dirty' = dirty \ {pid}
            /\ outcomes' = Append(outcomes, [skill |-> skills[skill_idx],
                                             payload |-> payload, res |-> "ok"])
            /\ atCall' = NoCall
            /\ job_idx' = 0
            /\ job_objs' = {}
            /\ Continue("next_item", processed + 1)
    /\ UNCHANGED <<mainVars, setting, stored_interval, settings_jobs, job_rows,
                   budget, requests, loadFailed, storedAtLoad, sigAt, envVars>>

\* line 200: setting = KayaSetting.load(); the history of the fetch phase
\* ends here
BookkeepingLoad ==
    /\ pc = "bk_load"
    /\ \E fault \in BOOLEAN :
         IF fault
         THEN /\ pc' = Propagate("DatabaseError", HandlerStack("bk_load"))
              /\ UNCHANGED <<setting, stored_interval>>
         ELSE /\ pc' = "bk_save"
              /\ stored_interval' = LoadedInterval
              /\ setting' = LoadedInterval
    /\ requests' = << >>
    /\ outcomes' = << >>
    /\ attempts' = << >>
    /\ UNCHANGED <<mainVars, sleep_secs, processed, seen, loopVars, settings_jobs,
                   job_rows, project_rows, budget, loadFailed, storedAtLoad, okCount,
                   lastOk, dirty, sigAt, skills_override, lastExtInterval,
                   extChanged, prevChanged, sinkVars>>

\* lines 201-203: setting.last_updated is no column; save() writes the loaded
\* interval_minutes back to the row pk=1
BookkeepingSave ==
    /\ pc = "bk_save"
    /\ \E fault \in BOOLEAN :
         IF fault
         THEN /\ pc' = Propagate("DatabaseError", HandlerStack("bk_save"))
              /\ UNCHANGED stored_interval
         ELSE /\ pc' = "sleep"
              /\ stored_interval' = setting
    /\ UNCHANGED <<mainVars, sleep_secs, processed, seen, loopVars, setting,
                   settings_jobs, job_rows, project_rows, budget, histVars, sigAt,
                   envVars, sinkVars>>

\* line 204: time.sleep(sleep_secs) returns
Sleep ==
    /\ pc = "sleep"
    /\ pc' = "loop_top"
    /\ UNCHANGED <<mainVars, sleep_secs, processed, seen, loopVars, setting, dbVars,
                   budget, histVars, sigAt, envVars, sinkVars>>

\* lines 169-171, 175-176: SIGINT or SIGTERM arrives; the handler raises
\* SystemExit at the current position of the main thread
Signal ==
    /\ pc \notin {"exited", "crashed"}
    /\ sigAt' = pc
    /\ IF Propagate("SystemExit", HandlerStack(pc)) = "exited"
       THEN \* SystemExit leaves main(): the frames and their locals are gone,
            \* the history of the cycle ends, the database stays as it is
            /\ pc' = "exited"
            /\ interval_minutes' = None
            /\ skills' = << >>
            /\ sleep_secs' = None
            /\ processed' = 0
            /\ seen' = {}
            /\ ResetLoop
            /\ setting' = None
            /\ job_idx' = 0
            /\ job_objs' = {}
            /\ atCall' = NoCall
            /\ requests' = << >>
            /\ outcomes' = << >>
            /\ attempts' = << >>
            /\ UNCHANGED cycle
       ELSE /\ Continue(Propagate("SystemExit", HandlerStack(pc)), processed)
            /\ UNCHANGED <<mainVars, processed, seen, setting, requests, outcomes,
                           attempts, sinkVars>>
    /\ UNCHANGED <<dbVars, budget, loadFailed, storedAtLoad, okCount, lastOk, dirty,
                   skills_override, lastExtInterval, extChanged, prevChanged>>

(***************************************************************************)
(* The environment: other clients of the database, the admin site of       *)
(* KayaSettings/admin.py and KayaProjects/admin.py and the script          *)
(* import_jobs.py, each write being one step.                              *)
(***************************************************************************)
\* the admin form of the settings row saves interval_minutes
ExternalSetInterval ==
    /\ pc \notin {"exited", "crashed"}
    /\ budget > 0
    /\ budget' = budget - 1
    /\ \E v \in StoredIntervals :
         /\ stored_interval' = v
         /\ lastExtInterval' = v
    /\ extChanged' = TRUE
    /\ UNCHANGED <<pc, mainVars, sleep_secs, processed, seen, loopVars, setting,
                   settings_jobs, job_rows, project_rows, histVars, sigAt,
                   skills_override, attempts, prevChanged, sinkVars>>

\* the admin form of the settings row saves the selection; the selection
\* hangs on the row pk=1, which is there by then
ExternalSetJobs ==
    /\ pc \notin {"exited", "crashed"}
    /\ budget > 0
    /\ budget' = budget - 1
    /\ \E S \in SUBSET JobIds : S # settings_jobs /\ settings_jobs' = S
    /\ stored_interval' = LoadedInterval
    /\ extChanged' = TRUE
    /\ UNCHANGED <<pc, mainVars, sleep_secs, processed, seen, loopVars, setting,
                   job_rows, project_rows, histVars, sigAt, skills_override,
                   attempts, lastExtInterval, prevChanged, sinkVars>>

\* import_jobs.py lines 39-43, and the add and change forms of JobAdmin: one
\* Job.objects.update_or_create(external_id=ext_id, defaults={"name": name})
ExternalUpsertJob ==
    /\ pc \notin {"exited", "crashed"}
    /\ budget > 0
    /\ budget' = budget - 1
    /\ \E e \in ImportEntries :
         /\ JobUpdateOrCreate(job_rows, e.id, e.name) # job_rows
         /\ job_rows' = JobUpdateOrCreate(job_rows, e.id, e.name)
    /\ extChanged' = TRUE
    /\ UNCHANGED <<pc, mainVars, sleep_secs, processed, seen, loopVars, setting,
                   stored_interval, settings_jobs, project_rows, histVars, sigAt,
                   skills_override, attempts, lastExtInterval, prevChanged,
                   sinkVars>>

\* the delete form of JobAdmin: the Job row goes, and with it its rows in the
\* two association tables
ExternalDeleteJob ==
    /\ pc \notin {"exited", "crashed"}
    /\ budget > 0
    /\ budget' = budget - 1
    /\ \E id \in JobIds :
         /\ job_rows' = { r \in job_rows : r.external_id # id }
         /\ settings_jobs' = settings_jobs \ {id}
         /\ project_rows' = { [r EXCEPT !.jobs = r.jobs \ {id}] : r \in project_rows }
         /\ dirty' = dirty \cup { r.project_id : r \in { q \in project_rows :
                                                          id \in q.jobs } }
         /\ job_objs' = { IF o = id THEN Dangling(o) ELSE o : o \in job_objs }
    /\ extChanged' = TRUE
    /\ UNCHANGED <<pc, mainVars, sleep_secs, processed, seen, loopVars, setting,
                   stored_interval, requests, outcomes, loadFailed, storedAtLoad,
                   okCount, lastOk, sigAt, skills_override, attempts,
                   lastExtInterval, prevChanged, job_idx, atCall>>

Next ==
    \/ CycleStart
    \/ LoadSettings
    \/ LoadSettingsExists
    \/ LoadSettingsReturns
    \/ LoadSettingsFails
    \/ Fallback
    \/ IngestStart
    \/ FetchPage
    \/ FetchPageFails
    \/ ProcessItem
    \/ UpsertJobEntry
    \/ SetProjectJobs
    \/ BookkeepingLoad
    \/ BookkeepingSave
    \/ Sleep
    \/ Signal
    \/ ExternalSetInterval
    \/ ExternalSetJobs
    \/ ExternalUpsertJob
    \/ ExternalDeleteJob

Spec == Init /\ [][Next]_vars

(***************************************************************************)
(* The run without termination signal.  main() is one thread that blocks   *)
(* only in calls that return or raise, so it takes its next step whenever  *)
(* it has one; the external writers are under no obligation.               *)
(***************************************************************************)
ProgramStep ==
    \/ CycleStart
    \/ LoadSettings
    \/ LoadSettingsExists
    \/ LoadSettingsReturns
    \/ LoadSettingsFails
    \/ Fallback
    \/ IngestStart
    \/ FetchPage
    \/ FetchPageFails
    \/ ProcessItem
    \/ UpsertJobEntry
    \/ SetProjectJobs
    \/ BookkeepingLoad
    \/ BookkeepingSave
    \/ Sleep

NextLive ==
    \/ ProgramStep
    \/ ExternalSetInterval
    \/ ExternalSetJobs
    \/ ExternalUpsertJob
    \/ ExternalDeleteJob

SpecLive == Init /\ [][NextLive]_vars /\ WF_vars(ProgramStep)

(***************************************************************************)
(* The sink on timestamps of every scale: a page of two listings, the      *)
(* first dated s and the second s * 1000, is being processed.              *)
(***************************************************************************)
TsLimbs == {0, 9, 10, 999}

\* positive epoch values below 10_000_000_000
TsInputs ==
    { n \in UNION { [1..m -> TsLimbs] : m \in 1..4 } :
        n[Len(n)] # 0 /\ (Len(n) <= 3 \/ n[4] < 10) } \cup {Secs}

\* the page that carries s and s * 1000
TsPage(s) ==
    << [project_id |-> 100, submit_date |-> s, title |-> "s"],
       [project_id |-> 101, submit_date |-> TimesThousand(s), title |-> "ms"] >>

InitTs ==
    /\ pc = "item"
    /\ cycle = 1
    /\ interval_minutes = 10
    /\ skills = <<17>>
    /\ sleep_secs = None
    /\ processed = 0
    /\ seen = {}
    /\ per_skill_counts = << >>
    /\ skill_idx = 1
    /\ skill_processed_before = 0
    /\ offset = 0
    /\ page = 1
    /\ \E s \in TsInputs :
         /\ batch = TsPage(s)
         /\ requests = << [skill |-> 17, offset |-> 0, exc |-> "none",
                           batch |-> TsPage(s)] >>
    /\ item_idx = 1
    /\ setting = None
    /\ stored_interval = 10
    /\ settings_jobs = {}
    /\ job_rows = { [external_id |-> 17, name |-> "dev"] }
    /\ project_rows = {}
    /\ budget = 0
    /\ outcomes = << >>
    /\ loadFailed = FALSE
    /\ storedAtLoad = 10
    /\ sigAt = "none"
    /\ okCount = 0
    /\ lastOk = {}
    /\ dirty = {}
    /\ skills_override = << >>
    /\ attempts = << Outcome(200, FALSE) >>
    /\ lastExtInterval = None
    /\ extChanged = FALSE
    /\ prevChanged = FALSE
    /\ job_idx = 0
    /\ job_objs = {}
    /\ atCall = NoCall

NextTs ==
    \/ ProcessItem
    \/ SetProjectJobs

SpecTs == InitTs /\ [][NextTs]_vars

(***************************************************************************)
(* Derived views of a cycle's history.                                     *)
(***************************************************************************)
\* the fetch phase of the current cycle is over and main() goes on
CycleFetchDone == pc = "bk_load"

\* main() is past the fetch phase of the current cycle
AfterIngest == pc \in {"bk_load", "bk_save", "sleep"}

\* main() is inside the loop over the categories
InFetch == pc \in {"fetch"} \cup SinkPositions

\* no other client wrote to the database since the cycle started
Undisturbed == ~extChanged

RECURSIVE Concat(_)
\* the concatenation of a sequence of sequences
Concat(ss) == IF ss = << >> THEN << >> ELSE Head(ss) \o Concat(Tail(ss))

\* the listings the upstream delivered in this cycle, in order
Delivered == Concat([ r \in DOMAIN requests |-> requests[r].batch ])

\* the listings delivered by the requests before request r
DeliveredBefore(r) == Len(Concat([ q \in 1..(r - 1) |-> requests[q].batch ]))

\* the sink does not raise on this payload
Valid(payload) == UpsertFromPayload(payload, {}, {}).exc = "none"

\* the project_ids the sink was called with in this cycle, in call order
SinkCalls ==
    LET called == SelectSeq(outcomes, LAMBDA o : o.res # "skipped")
    IN  [ n \in DOMAIN called |-> GetProjectId(called[n].payload) ]

\* the project_ids of the yielded listings of this cycle, in order
Listed == [ n \in DOMAIN outcomes |-> GetProjectId(outcomes[n].payload) ]

RECURSIVE FirstOccurrences(_, _)
\* the subsequence of first occurrences of ids, seenIds being seen already
FirstOccurrences(ids, seenIds) ==
    IF ids = << >> THEN << >>
    ELSE IF Head(ids) \in seenIds THEN FirstOccurrences(Tail(ids), seenIds)
         ELSE <<Head(ids)>> \o FirstOccurrences(Tail(ids), seenIds \cup {Head(ids)})

\* the requests of this cycle made for skill c, as indexes into requests
RequestsOf(c) == { r \in DOMAIN requests : requests[r].skill = c }

\* delivered listing n went through the dedup-and-upsert path: it was yielded,
\* and if the sink accepts it, it was upserted then or earlier in the cycle
Processed(n) ==
    /\ n \in DOMAIN outcomes
    /\ outcomes[n].payload = Delivered[n]
    /\ outcomes[n].res = "skipped" =>
         \E m \in 1..(n - 1) :
            /\ outcomes[m].res = "ok"
            /\ GetProjectId(outcomes[m].payload) = GetProjectId(Delivered[n])
    /\ outcomes[n].res = "ok" =>
         \E row \in project_rows : row.project_id = GetProjectId(Delivered[n])
    /\ (Valid(Delivered[n]) /\ Undisturbed) => outcomes[n].res \in {"ok", "skipped"}

(***************************************************************************)
(* C1: within one cycle the upsert sink is invoked at most once per        *)
(* project_id, whatever the sink calls return or raise.                    *)
(***************************************************************************)
C1_AtMostOneSinkCallPerProject ==
    \A m, n \in DOMAIN SinkCalls : SinkCalls[m] = SinkCalls[n] => m = n

(***************************************************************************)
(* C2: no internal condition terminates the scheduler process: main()      *)
(* never ends by an exception.                                             *)
(***************************************************************************)
C2_NoInternalTermination == pc # "crashed"

(***************************************************************************)
(* C3: category-level isolation: when the fetch of a category raises,      *)
(* every later category of the cycle is still requested and every listing  *)
(* the later categories deliver goes through the dedup-and-upsert path.    *)
(***************************************************************************)
C3_CategoryIsolation ==
    CycleFetchDone =>
       \A r \in DOMAIN requests : requests[r].exc # "none" =>
          \A j \in DOMAIN skills :
             (\E i \in 1..(j - 1) : skills[i] = requests[r].skill) =>
                /\ RequestsOf(skills[j]) # {}
                /\ \A q \in RequestsOf(skills[j]) :
                      \A n \in 1..Len(requests[q].batch) :
                         Processed(DeliveredBefore(q) + n)

\* a cycle whose first category failed and whose second category delivered a
\* listing that was upserted
C3_Witness ==
    /\ CycleFetchDone
    /\ Len(requests) >= 2
    /\ requests[1].exc = "ConnectionError"
    /\ requests[2].skill # requests[1].skill
    /\ requests[2].batch # << >>
    /\ outcomes # << >>
    /\ outcomes[1].res = "ok"

(***************************************************************************)
(* C4: when load_settings() raises, the same cycle still runs its fetch    *)
(* phase with interval 10 and every known category, and reaches the sleep  *)
(* step with 600 seconds, without the process crashing.                    *)
(***************************************************************************)
C4_FallbackCycleCompletes ==
    loadFailed =>
       /\ pc # "crashed"
       /\ pc = "sleep" =>
            /\ interval_minutes = 10
            /\ sleep_secs = 600
            /\ { skills[i] : i \in DOMAIN skills } \subseteq JobIds

(***************************************************************************)
(* C5: a termination signal received at any position of main() ends the    *)
(* process there: no except clause of the cycle swallows it, the cycle is  *)
(* not completed and no further step is taken.                             *)
(***************************************************************************)
C5_SignalExits == sigAt # "none" => pc = "exited"

\* a signal that arrived while a payload was being upserted, inside both the
\* per-record and the per-category try blocks: the project row is written,
\* its categories are not
C5_Witness ==
    /\ sigAt = "item_jobs"
    /\ pc = "exited"
    /\ \E row \in project_rows :
          row.project_id = 100 /\ row.title = "a" /\ row.jobs = {}

(***************************************************************************)
(* C6: pagination termination: a call of fetch_all_for_skill that is over  *)
(* and did not raise made k requests that returned non-empty pages and     *)
(* then exactly one request that returned an empty page, k + 1 requests in *)
(* all, and yielded exactly the concatenation of the k pages, in order.    *)
(***************************************************************************)
\* the call of fetch_all_for_skill for skills[j] is over
CallOver(j) == CycleFetchDone \/ (InFetch /\ skill_idx > j)

\* the requests of the call for c, in order, and the payloads it yielded
CallRequests(c) == SelectSeq(requests, LAMBDA r : r.skill = c)
CallYielded(c) ==
    LET ys == SelectSeq(outcomes, LAMBDA o : o.skill = c)
    IN  [ n \in DOMAIN ys |-> ys[n].payload ]

C6_PaginationTermination ==
    \A j \in DOMAIN skills :
       LET rs == CallRequests(skills[j]) IN
       (/\ CallOver(j)
        /\ \A n \in DOMAIN rs : rs[n].exc = "none")
       => /\ rs # << >>
          /\ rs[Len(rs)].batch = << >>
          /\ \A n \in 1..(Len(rs) - 1) : rs[n].batch # << >>
          /\ CallYielded(skills[j]) = Concat([ n \in DOMAIN rs |-> rs[n].batch ])

\* a call that ended after two non-empty pages and an empty one
C6_Witness ==
    \E j \in DOMAIN skills :
       LET rs == CallRequests(skills[j]) IN
       /\ CallOver(j)
       /\ Len(rs) = 3
       /\ rs[3].exc = "none"
       /\ rs[3].batch = << >>
       /\ Len(CallYielded(skills[j])) = 2

(***************************************************************************)
(* C7: interval floor: the sleep duration is max(600, interval_minutes *   *)
(* 60) for the interval of the cycle, never below 600; a stored interval   *)
(* below 10 is clamped to 10 (a stored 3 gives 600 seconds), not rejected. *)
(***************************************************************************)
C7_IntervalFloor ==
    AfterIngest =>
       /\ sleep_secs >= 600
       /\ sleep_secs >= interval_minutes * 60
       /\ sleep_secs \in {600, interval_minutes * 60}
       /\ ~loadFailed =>
            /\ storedAtLoad < 10 => interval_minutes = 10
            /\ storedAtLoad >= 10 => interval_minutes = storedAtLoad
            /\ storedAtLoad = 3 => sleep_secs = 600

\* a cycle that loaded a stored interval of 3 and is about to sleep
C7_Witness ==
    /\ pc = "sleep"
    /\ ~loadFailed
    /\ storedAtLoad = 3
    /\ sleep_secs = 600

(***************************************************************************)
(* C8: upsert ordering: the project_ids passed to the sink in a cycle are  *)
(* the first occurrences of the yielded listings, in traversal order.      *)
(***************************************************************************)
C8_SinkCallsAreFirstOccurrences ==
    SinkCalls = FirstOccurrences(Listed, {})

(***************************************************************************)
(* C9: per-record failure isolation: when the sink raises for a payload,   *)
(* every listing delivered after it in the cycle (same page, later pages,  *)
(* later categories) still goes through the dedup-and-upsert path.         *)
(***************************************************************************)
C9_RecordIsolation ==
    (CycleFetchDone \/ pc = "fetch") =>
       \A m \in DOMAIN outcomes : outcomes[m].res = "raised" =>
          \A n \in (m + 1)..Len(Delivered) : Processed(n)

\* the sink raised for the first payload of a page and the second payload of
\* the same page was upserted
C9_Witness ==
    /\ CycleFetchDone
    /\ Len(requests) >= 1
    /\ Len(requests[1].batch) = 2
    /\ Len(outcomes) = 2
    /\ outcomes[1].res = "raised"
    /\ outcomes[2].res = "ok"

(***************************************************************************)
(* C10: upsert idempotence: for every project_id whose last sink call      *)
(* succeeded, the store holds exactly one record, with the fields of that  *)
(* call's payload and exactly the categories that payload carries (none    *)
(* when it carries none).                                                  *)
(***************************************************************************)
\* the category ids a payload carries
CarriedJobs(payload) ==
    { GetJobs(payload)[n].id :
        n \in { k \in DOMAIN GetJobs(payload) : DOMAIN GetJobs(payload)[k] # {} } }

C10_UpsertIdempotent ==
    /\ \A r1, r2 \in project_rows : r1.project_id = r2.project_id => r1 = r2
    /\ \A q \in lastOk :
          /\ \E row \in project_rows : row.project_id = GetProjectId(q)
          /\ GetProjectId(q) \notin dirty =>
                \A row \in project_rows : row.project_id = GetProjectId(q) =>
                   /\ row.title = GetTitle(q)
                   /\ row.submit_date = Millis
                   /\ row.jobs = CarriedJobs(q)

\* project 100 was upserted twice, first with category 99 and last with no
\* category at all
C10_Witness ==
    /\ okCount = 2
    /\ 99 \in JobIds
    /\ dirty = {}
    /\ \E q \in lastOk : q.title = "a3"
    /\ \A row \in project_rows : row.project_id = 100 /\ row.jobs = {}

(***************************************************************************)
(* C11: dynamic reconfiguration: every cycle reads the settings anew, so   *)
(* the interval an external writer stored last and the category selection  *)
(* stored at the time of the load are what the cycle uses for its fetch    *)
(* set and for its sleep duration.                                         *)
(***************************************************************************)
\* the elements of a sequence
Range(seq) == { seq[i] : i \in DOMAIN seq }

C11_DynamicReconfiguration ==
    [][ /\ (pc \in {"load_selected", "load_all"} /\ pc' = "ingest" /\ Undisturbed) =>
             /\ lastExtInterval # None =>
                   interval_minutes' = IntervalMinutes(lastExtInterval)
             /\ Range(skills') = IF settings_jobs # {} THEN settings_jobs
                                                        ELSE JobIds
        /\ (pc # "bk_load" /\ pc' = "bk_load") =>
             sleep_secs' = SleepSecs(interval_minutes) ]_vars

(***************************************************************************)
(* C12: the seen set is empty when a cycle starts fetching and remembers   *)
(* nothing of earlier cycles: a listing is skipped only when the same      *)
(* project_id was upserted earlier in the same cycle, so a project         *)
(* upserted in cycle n and delivered again in cycle n+1 is upserted again. *)
(***************************************************************************)
\* an earlier listing of this cycle with the project_id of listing n was upserted
UpsertedEarlier(n) ==
    \E m \in 1..(n - 1) :
       /\ outcomes[m].res = "ok"
       /\ GetProjectId(outcomes[m].payload) = GetProjectId(outcomes[n].payload)

C12_SeenIsCycleScoped ==
    /\ (pc = "fetch" /\ requests = << >>) => seen = {}
    /\ \A n \in DOMAIN outcomes :
          /\ outcomes[n].res = "skipped" => UpsertedEarlier(n)
          /\ (Valid(outcomes[n].payload) /\ ~UpsertedEarlier(n) /\ Undisturbed)
                => outcomes[n].res = "ok"

\* the second cycle upserted the project that the first cycle had upserted
C12_Witness ==
    /\ cycle = 2
    /\ okCount = 2
    /\ Len(outcomes) = 1
    /\ outcomes[1].res = "ok"
    /\ Cardinality(project_rows) = 1

(***************************************************************************)
(* C13: bounded retry: a page request makes at most 5 HTTP attempts; every *)
(* attempt but the last ended with 429, 500, 502, 503, 504 or without a    *)
(* response, so a 4xx status outside that list ends the request at once;   *)
(* a request whose last attempt failed raises into the handler of its      *)
(* category: the category is closed and the loop goes on after it.         *)
(***************************************************************************)
\* the attempt ended with a 4xx status that is not in the retry list
UnlistedClientError(o) == o.status >= 400 /\ o.status < 500 /\ o.status # 429

C13_BoundedRetry ==
    (attempts # << >> /\ requests # << >>) =>
       LET latest == requests[Len(requests)]
           last == attempts[Len(attempts)]
       IN
       /\ Len(attempts) <= 5
       /\ \A i \in 1..(Len(attempts) - 1) :
             attempts[i].status \in {429, 500, 502, 503, 504, NoResponse}
       /\ \A i \in DOMAIN attempts :
             UnlistedClientError(attempts[i]) => i = Len(attempts)
       /\ UnlistedClientError(attempts[1]) => Len(attempts) = 1
       /\ (last.status = NoResponse \/ last.status >= 400) =>
             /\ latest.exc \in {"HTTPError", "ConnectionError"}
             /\ pc \notin SinkPositions
             /\ pc = "fetch" =>
                   /\ skills[skill_idx] # latest.skill
                   /\ per_skill_counts[Len(per_skill_counts)][1] = latest.skill
             /\ CycleFetchDone => latest.skill = skills[Len(skills)]

(***************************************************************************)
(* C14: a page request that fails does not undo what its call did before:  *)
(* every listing of that category that was upserted earlier in the call    *)
(* is still stored as upserted and still in the seen set, and the failure  *)
(* shows only as the end of that category, whose count of upserts and the  *)
(* running total still include those listings.                             *)
(***************************************************************************)
\* the listings of this cycle yielded for skill c and upserted
UpsertedFor(c) ==
    { n \in DOMAIN outcomes : outcomes[n].skill = c /\ outcomes[n].res = "ok" }

C14_FailureKeepsEarlierResults ==
    \A r \in DOMAIN requests : requests[r].exc # "none" =>
       LET c == requests[r].skill IN
       /\ \A n \in UpsertedFor(c) :
             LET q == outcomes[n].payload IN
             /\ Undisturbed => \E row \in project_rows :
                   /\ row.project_id = GetProjectId(q)
                   /\ row.title = GetTitle(q)
                   /\ row.submit_date = MsToDt(GetSubmitDate(q))
                   /\ row.jobs = CarriedJobs(q)
             /\ InFetch => GetProjectId(q) \in seen
       /\ InFetch =>
             /\ processed = Cardinality({ n \in DOMAIN outcomes :
                                            outcomes[n].res = "ok" })
             /\ \E k \in DOMAIN per_skill_counts :
                   per_skill_counts[k] = <<c, Cardinality(UpsertedFor(c))>>

\* the first page of a category was upserted, its second page request failed
\* and the loop is at the next category
C14_Witness ==
    /\ Len(requests) = 2
    /\ requests[1].skill = requests[2].skill
    /\ Len(requests[1].batch) = 1
    /\ requests[2].exc = "HTTPError"
    /\ Len(outcomes) = 1
    /\ outcomes[1].res = "ok"
    /\ pc = "fetch"

(***************************************************************************)
(* C15: a cycle whose category set is empty makes no page request and no   *)
(* sink call: ingest_once returns 0 without raising and main() goes on to  *)
(* the sleep step with the sleep duration of the cycle's interval.         *)
(***************************************************************************)
C15_EmptyCategorySetSkipsFetch ==
    /\ InFetch => skills # << >>
    /\ (skills = << >> /\ CycleFetchDone) =>
          /\ requests = << >>
          /\ outcomes = << >>
          /\ attempts = << >>
          /\ sleep_secs = SleepSecs(interval_minutes)

\* the settings were loaded, no category is selected or known, and the cycle
\* is at its sleep step
C15_Witness ==
    /\ pc = "sleep"
    /\ cycle >= 1
    /\ ~loadFailed
    /\ skills = << >>
    /\ storedAtLoad # None

(***************************************************************************)
(* C16: timestamp normalization: for every positive integer s below        *)
(* 10_000_000_000, _ms_to_dt(s) and _ms_to_dt(s * 1000) are the same       *)
(* instant; 1700000000 and 1700000000000 normalize to the same instant.    *)
(***************************************************************************)
\* the instant stored for project pid, in epoch milliseconds
SubmitDateOf(pid) ==
    (CHOOSE row \in project_rows : row.project_id = pid).submit_date

\* both listings of the page are stored
BothStored == okCount = 2 /\ Len(outcomes) = 2

\* the value s the first listing of the page was dated with
DatedS == outcomes[1].payload.submit_date

C16_SameInstantForEveryS ==
    BothStored => SubmitDateOf(100) = SubmitDateOf(101)

\* n >= 10_000_000, i.e. n >= 10 * 1000^2
AtLeastTenMillion(n) == Len(n) >= 4 \/ (Len(n) = 3 /\ n[3] >= 10)

\* C16 as amended: the two instants agree for every s from 10_000_000 up to
\* 10_000_000_000, the instant being s * 1000 ms (1700000000 and
\* 1700000000000 both give 1700000000000 ms); for a positive s below
\* 10_000_000, s * 1000 is itself below 10_000_000_000 and is rescaled once
\* more, to s * 1_000_000 ms.
C16_SameInstantFromTenMillion ==
    BothStored =>
       /\ SubmitDateOf(100) = TimesThousand(DatedS)
       /\ AtLeastTenMillion(DatedS) => SubmitDateOf(101) = SubmitDateOf(100)
       /\ ~AtLeastTenMillion(DatedS) =>
             SubmitDateOf(101) = TimesThousand(TimesThousand(DatedS))
       /\ DatedS = Secs => SubmitDateOf(100) = Millis /\ SubmitDateOf(101) = Millis

\* the listings dated 1700000000 and 1700000000000 are stored with one instant
C16_Witness ==
    /\ BothStored
    /\ DatedS = Secs
    /\ SubmitDateOf(100) = Millis
    /\ SubmitDateOf(101) = Millis

(***************************************************************************)
(* C17: category override: when the process was started with a list of     *)
(* categories, the categories polled in that run are exactly that list,    *)
(* before the Settings Source; without one, the settings or else the known *)
(* categories determine the polled set.                                    *)
(***************************************************************************)
C17_CategoryOverride ==
    /\ skills_override # << >> =>
          /\ (pc = "ingest" \/ InFetch) => skills = skills_override
          /\ \A r \in DOMAIN requests :
                requests[r].skill \in Range(skills_override)
    /\ (skills_override = << >> /\ (pc = "ingest" \/ InFetch) /\ Undisturbed) =>
          Range(skills) \subseteq JobIds

(***************************************************************************)
(* C18: offset advancement: in one call of fetch_all_for_skill the first   *)
(* page request has offset 0 and every later request has as offset the     *)
(* number of listings that the earlier pages of the call returned, so the  *)
(* offsets increase strictly while pages are non-empty, whatever the sizes *)
(* of the pages.                                                           *)
(***************************************************************************)
RECURSIVE TotalLen(_)
\* the number of listings in a sequence of page requests
TotalLen(rs) == IF rs = << >> THEN 0 ELSE Len(Head(rs).batch) + TotalLen(Tail(rs))

C18_OffsetAdvancement ==
    /\ \A j \in DOMAIN skills :
          LET rs == CallRequests(skills[j]) IN
          \A n \in DOMAIN rs :
             /\ rs[n].offset = TotalLen(SubSeq(rs, 1, n - 1))
             /\ n = 1 => rs[n].offset = 0
             /\ (n > 1 /\ rs[n - 1].batch # << >>) => rs[n].offset > rs[n - 1].offset
    /\ InFetch =>
          offset = TotalLen(CallRequests(skills[skill_idx]))
                     - (IF pc \in SinkPositions THEN Len(batch) ELSE 0)

\* a call whose first page held two listings and whose second request was
\* made with offset 2
C18_Witness ==
    /\ Len(requests) = 2
    /\ requests[1].skill = requests[2].skill
    /\ Len(requests[1].batch) = 2
    /\ requests[2].offset = 2

(***************************************************************************)
(* C19: the scheduler never overwrites an external settings change: once   *)
(* the end-of-cycle load and save of the settings record are done, the     *)
(* stored interval_minutes is the value the external writer wrote last,    *)
(* however its writes interleave with the load and the save.               *)
(***************************************************************************)
C19_SaveKeepsExternalInterval ==
    (pc = "sleep" /\ lastExtInterval # None) => stored_interval = lastExtInterval

(***************************************************************************)
(* C20: ingestion does not change which categories later cycles poll: when *)
(* the settings were not edited externally since the previous cycle read   *)
(* them, a cycle polls the same category set as the previous cycle,        *)
(* whatever was upserted in between and whether a category is selected in  *)
(* the settings or none is.  (With a selection, the two cycles are         *)
(* compared when both took their categories from the settings.)            *)
(***************************************************************************)
C20_IngestionKeepsPolledSet ==
    [][ (/\ pc \in {"load_selected", "load_all", "fallback"}
         /\ pc' = "ingest"
         /\ cycle >= 2
         /\ ~extChanged
         /\ ~prevChanged
         /\ \/ settings_jobs = {}
            \/ pc = "load_selected" /\ Range(skills) = settings_jobs)
        => Range(skills') = Range(skills) ]_vars

(***************************************************************************)
(* C21: a failed upsert leaves the store unchanged: when the sink raises   *)
(* for a payload, at whatever step, the listing records with their         *)
(* category associations and the category rows are what they were before   *)
(* the call (no other client writing meanwhile).                           *)
(***************************************************************************)
\* the two tables as the sink call that is running or about to run found them
BeforeCall ==
    IF pc = "item" THEN [projects |-> project_rows, jobs |-> job_rows] ELSE atCall

C21_FailedUpsertLeavesStore ==
    [][ (/\ Len(outcomes') = Len(outcomes) + 1
         /\ outcomes'[Len(outcomes')].res = "raised"
         /\ Undisturbed)
        => /\ project_rows' = BeforeCall.projects
           /\ job_rows' = BeforeCall.jobs ]_vars

(***************************************************************************)
(* C22: cycle progress: when no termination signal arrives and every page  *)
(* request and every sink call returns or raises, a cycle that has started *)
(* eventually reaches the sleep step, whatever the upstream API returns.   *)
(***************************************************************************)
C22_CycleReachesSleep == (pc = "load") ~> (pc = "sleep")

====
